---- MODULE Spec2Model ----
(***************************************************************************)
(* Diner ordering page (QRMenuPage), its variant dialog                    *)
(* (VariantSelectionModal) and the backing store's orders and payments.    *)
(*                                                                         *)
(* Money is counted in paise (1 rupee = 100 paise) and tax rates in tenths *)
(* of a percent, so that the page's arithmetic on the amounts used here is *)
(* exact in integers: 2.5% is the rate 25, and "x * rate / 100" becomes    *)
(* (x * rate) \div (100 * RateScale).                                      *)
(***************************************************************************)
EXTENDS Integers, Sequences, FiniteSets, TLC

VARIABLES
    cart,                     \* useState<CartItem[]>
    now,                      \* the value Date.now() returned last
    selectedItemForVariants,  \* item whose variant dialog is open, or None
    selectedVariant,          \* dialog state: chosen variant, or None
    selectedAddOns,           \* dialog state: chosen add-ons, in toggle order
    showCart,                 \* the cart panel is open
    paymentStep,              \* 'cart' | 'payment_choice' | 'pay_online'
    customerName,             \* text of the name input
    utrNumber,                \* text of the transaction reference input
    orderLoading,             \* useState(false)
    toast,                    \* title of the toast shown last
    restaurant,               \* the restaurant row as loaded by the page
    dbRestaurant,             \* the restaurant row in the store
    requests,                 \* placeOrder calls suspended at an await
    submitted,                \* number of placeOrder calls that reached an await
    orders,                   \* rows of the orders table
    payments,                 \* rows of the payments table
    navigateTo,               \* order ids of the pending navigation timers
    page,                     \* "menu" while the ordering page is mounted, then "bill"
    checkoutTotals,           \* per inserted order, the totals its placeOrder call computed
    billPage,                 \* BillPage: the order id of the route and the rows it loaded
    bills,                    \* rows of the bills table, in insertion order
    triggers,                 \* the completion triggers installed on the orders table
    ordersPage,               \* OrdersPage of one staff browser: its list and fetches
    channel                   \* change events of the orders table on their way to it

cartVars == <<cart, now, selectedItemForVariants, selectedVariant, selectedAddOns>>
panelVars == <<showCart, paymentStep>>
formVars == <<customerName, utrNumber>>
storeVars == <<dbRestaurant, orders, payments>>
billingVars == <<bills, triggers>>
staffVars == <<ordersPage, channel>>
vars == <<cart, now, selectedItemForVariants, selectedVariant, selectedAddOns,
          showCart, paymentStep, customerName, utrNumber, orderLoading, toast,
          restaurant, dbRestaurant, requests, submitted, orders, payments,
          navigateTo, page, checkoutTotals, billPage, bills, triggers,
          ordersPage, channel>>

None == "none"     \* null item name, no toast
Null == <<>>        \* an optional value (variant, rate) that is absent
Some(x) == <<x>>    \* an optional value that is present

(***************************************************************************)
(* Bounds                                                                  *)
(***************************************************************************)
MaxCartLines == 2      \* lines in the cart while composing it
MaxQty == 3            \* quantity of a line while composing the cart
MaxClock == 1          \* distinct Date.now() values after the first
MaxPricingLines == 2   \* lines of the carts the pricing specification starts from
MaxPricingQty == 2     \* quantity of a line in the pricing specification
MaxCheckoutLines == 1  \* lines of the carts the checkout specification starts from
MaxCheckoutQty == 2    \* quantity of a line in the checkout specification
MaxSubmissions == 1    \* placeOrder calls that reach the store
MaxBillLines == 1      \* lines of the carts the bill specification starts from
MaxBillQty == 2        \* quantity of a line in the bill specification
MaxBills == 2          \* rows of the bills table

MaxResubmissions == 2  \* placeOrder calls of the resubmission specification
MaxNotifications == 2  \* change events on their way to the staff page
MaxFetches == 3        \* fetchOrders calls of the staff page

MaxOldLines == 1       \* lines of the cart in the earlier revision of the page
MaxOldQty == 2         \* quantity of a line in the earlier revision of the page

RateScale == 10        \* rate units per percent

(***************************************************************************)
(* Menu catalog: the rows of menu_items the page loaded.                   *)
(***************************************************************************)
Large == [name |-> "Large", price |-> 20000]
Mini == [name |-> "Mini", price |-> 0]
Cheese == [name |-> "Cheese", price |-> 2000]

Items == {"burger", "pizza"}

MenuItem(i) ==
    IF i = "burger"
    THEN [id |-> "burger", price |-> 15000, variants |-> <<>>, add_ons |-> <<>>]
    ELSE [id |-> "pizza", price |-> 18000, variants |-> <<Large, Mini>>,
          add_ons |-> <<Cheese>>]

Range(s) == {s[k] : k \in 1..Len(s)}

RECURSIVE SumPrices(_)
\* addOns.reduce((sum, addon) => sum + addon.price, 0)
SumPrices(s) == IF s = <<>> THEN 0 ELSE s[1].price + SumPrices(Tail(s))

HasVariants(item) == Len(item.variants) > 0

(***************************************************************************)
(* Cart model                                                              *)
(***************************************************************************)
\* `${item.id}-${Date.now()}`
CartItemId(item, t) == <<item.id, t>>

\* Faulty variant: the add-on prices are left out of the line's unit price.
NewCartItem_IgnoresAddOns(item, variant, addOns, t) ==
    LET basePrice == IF variant # Null THEN variant[1].price ELSE item.price
    IN  [id |-> CartItemId(item, t), menuItemId |-> item.id, name |-> item.id,
         price |-> basePrice, quantity |-> 1, variant |-> variant,
         addOns |-> addOns, total |-> basePrice]

NewCartItem(item, variant, addOns, t) ==
    LET basePrice == IF variant # Null THEN variant[1].price ELSE item.price
        addOnsTotal == SumPrices(addOns)
        totalPrice == basePrice + addOnsTotal
    IN  [id |-> CartItemId(item, t), menuItemId |-> item.id, name |-> item.id,
         price |-> basePrice, quantity |-> 1, variant |-> variant,
         addOns |-> addOns, total |-> totalPrice]

\* Faulty variant: the check for a missing variant is dropped.
HandleAddToCart_NoVariantCheck(item, variant, addOns, t) ==
    /\ cart' = Append(cart, NewCartItem(item, variant, addOns, t))
    /\ now' = t
    /\ toast' = "Added to Cart"
    /\ selectedItemForVariants' = None
    /\ selectedVariant' = Null
    /\ selectedAddOns' = <<>>

HandleAddToCart(item, variant, addOns, t) ==
    IF HasVariants(item) /\ variant = Null
    THEN /\ selectedItemForVariants' = item.id
         \* the dialog mounts: useState(item.variants?.[0] || null), useState([])
         /\ selectedVariant' = Some(item.variants[1])
         /\ selectedAddOns' = <<>>
         /\ UNCHANGED <<cart, now, toast>>
    ELSE /\ cart' = Append(cart, NewCartItem(item, variant, addOns, t))
         /\ now' = t
         /\ toast' = "Added to Cart"
         /\ selectedItemForVariants' = None
         /\ selectedVariant' = Null
         /\ selectedAddOns' = <<>>

RECURSIVE RemoveId(_, _)
\* prev.filter(item => item.id !== cartItemId)
RemoveId(c, cartItemId) ==
    IF c = <<>> THEN <<>>
    ELSE IF c[1].id # cartItemId THEN <<c[1]>> \o RemoveId(Tail(c), cartItemId)
         ELSE RemoveId(Tail(c), cartItemId)

\* Faulty variant: the stored total is multiplied by the new quantity, as the earlier
\* revision of the page did, while the subtotal multiplies by quantity again.
UpdateCartItemQuantity_RecomputesTotal(c, cartItemId, newQuantity) ==
    IF newQuantity <= 0
    THEN RemoveId(c, cartItemId)
    ELSE [k \in 1..Len(c) |->
            IF c[k].id = cartItemId
            THEN [c[k] EXCEPT !.quantity = newQuantity,
                              !.total = (c[k].price + SumPrices(c[k].addOns))
                                          * newQuantity]
            ELSE c[k]]

\* Faulty variant: only a negative quantity removes the line.
UpdateCartItemQuantity_KeepsZero(c, cartItemId, newQuantity) ==
    IF newQuantity < 0
    THEN RemoveId(c, cartItemId)
    ELSE [k \in 1..Len(c) |->
            IF c[k].id = cartItemId
            THEN [c[k] EXCEPT !.quantity = newQuantity]
            ELSE c[k]]

UpdateCartItemQuantity(c, cartItemId, newQuantity) ==
    IF newQuantity <= 0
    THEN RemoveId(c, cartItemId)
    ELSE [k \in 1..Len(c) |->
            IF c[k].id = cartItemId
            THEN [c[k] EXCEPT !.quantity = newQuantity]
            ELSE c[k]]

RECURSIVE GetCartSubtotal(_)
GetCartSubtotal(c) ==
    IF c = <<>> THEN 0
    ELSE c[1].total * c[1].quantity + GetCartSubtotal(Tail(c))

RECURSIVE GetCartItemsCount(_)
GetCartItemsCount(c) ==
    IF c = <<>> THEN 0 ELSE c[1].quantity + GetCartItemsCount(Tail(c))

(***************************************************************************)
(* Events of the menu, the variant dialog and the cart panel.  The dialog  *)
(* and the cart panel are full-screen overlays: while one is open only its *)
(* own controls can be clicked.                                            *)
(***************************************************************************)
MenuClickable == page = "menu" /\ ~showCart /\ selectedItemForVariants = None
DialogOpen == page = "menu" /\ selectedItemForVariants # None
PanelOpen == page = "menu" /\ showCart

Clock == {t \in {now, now + 1} : t <= MaxClock}

othersOfCart == <<showCart, paymentStep, customerName, utrNumber, orderLoading,
                  restaurant, dbRestaurant, requests, submitted, orders,
                  payments, navigateTo, page, checkoutTotals, billPage,
                  billingVars, staffVars>>

\* onClick={() => handleAddToCart(item)} on a menu card
ClickAddToCart(i, maxLines) ==
    /\ MenuClickable
    /\ Len(cart) < maxLines
    /\ \E t \in Clock : HandleAddToCart(MenuItem(i), Null, <<>>, t)
    /\ UNCHANGED othersOfCart

\* onChange={() => setSelectedVariant(variant)}
SelectVariant(v) ==
    /\ DialogOpen
    /\ v \in Range(MenuItem(selectedItemForVariants).variants)
    /\ selectedVariant' = Some(v)
    /\ UNCHANGED <<cart, now, selectedItemForVariants, selectedAddOns, toast>>
    /\ UNCHANGED othersOfCart

RECURSIVE RemoveName(_, _)
\* prev.filter(a => a.name !== addOn.name)
RemoveName(s, name) ==
    IF s = <<>> THEN <<>>
    ELSE IF s[1].name # name THEN <<s[1]>> \o RemoveName(Tail(s), name)
         ELSE RemoveName(Tail(s), name)

HandleAddOnToggle(addOn) ==
    /\ DialogOpen
    /\ addOn \in Range(MenuItem(selectedItemForVariants).add_ons)
    /\ selectedAddOns' =
          IF \E a \in Range(selectedAddOns) : a.name = addOn.name
          THEN RemoveName(selectedAddOns, addOn.name)
          ELSE Append(selectedAddOns, addOn)
    /\ UNCHANGED <<cart, now, selectedItemForVariants, selectedVariant, toast>>
    /\ UNCHANGED othersOfCart

HandleConfirm ==
    /\ DialogOpen
    /\ LET item == MenuItem(selectedItemForVariants) IN
         IF HasVariants(item) /\ selectedVariant = Null
         THEN UNCHANGED <<cart, now, selectedItemForVariants, selectedVariant,
                          selectedAddOns, toast>>
         ELSE \E t \in Clock :
                 HandleAddToCart(item, selectedVariant, selectedAddOns, t)
    /\ UNCHANGED othersOfCart

\* calculateTotal of the dialog: selectedVariant?.price || item.price, plus
\* the prices of the selected add-ons
CalculateTotal ==
    LET item == MenuItem(selectedItemForVariants)
        variantPrice ==
            IF selectedVariant # Null /\ selectedVariant[1].price # 0
            THEN selectedVariant[1].price
            ELSE item.price
        addOnsPrice == SumPrices(selectedAddOns)
    IN  variantPrice + addOnsPrice

\* onClose={() => setSelectedItemForVariants(null)}
CloseDialog ==
    /\ DialogOpen
    /\ selectedItemForVariants' = None
    /\ selectedVariant' = Null
    /\ selectedAddOns' = <<>>
    /\ UNCHANGED <<cart, now, toast>>
    /\ UNCHANGED othersOfCart

\* onClick={() => { setShowCart(true); setPaymentStep('cart'); }}
OpenCart ==
    /\ MenuClickable
    /\ showCart' = TRUE
    /\ paymentStep' = "cart"
    /\ UNCHANGED <<cartVars, formVars, storeVars, orderLoading, toast,
                   restaurant, requests, submitted, navigateTo, page,
                   checkoutTotals, billPage, billingVars, staffVars>>

\* onClick={() => setShowCart(false)} on the backdrop and on the X button
CloseCart ==
    /\ PanelOpen
    /\ showCart' = FALSE
    /\ UNCHANGED <<cartVars, formVars, storeVars, paymentStep, orderLoading,
                   toast, restaurant, requests, submitted, navigateTo, page,
                   checkoutTotals, billPage, billingVars, staffVars>>

CartViewShown == PanelOpen /\ paymentStep = "cart"

\* onClick={() => updateCartItemQuantity(item.id, item.quantity + 1)}
ClickPlus(k, maxQty) ==
    /\ CartViewShown
    /\ k \in 1..Len(cart)
    /\ cart[k].quantity < maxQty
    /\ cart' = UpdateCartItemQuantity(cart, cart[k].id, cart[k].quantity + 1)
    /\ UNCHANGED <<now, selectedItemForVariants, selectedVariant,
                   selectedAddOns, toast>>
    /\ UNCHANGED othersOfCart

\* onClick={() => updateCartItemQuantity(item.id, item.quantity - 1)}
ClickMinus(k) ==
    /\ CartViewShown
    /\ k \in 1..Len(cart)
    /\ cart' = UpdateCartItemQuantity(cart, cart[k].id, cart[k].quantity - 1)
    /\ UNCHANGED <<now, selectedItemForVariants, selectedVariant,
                   selectedAddOns, toast>>
    /\ UNCHANGED othersOfCart

(***************************************************************************)
(* Text inputs.  A text is a sequence of characters; " " is white space.   *)
(***************************************************************************)
RECURSIVE TrimStart(_)
TrimStart(s) ==
    IF s # <<>> /\ s[1] = " " THEN TrimStart(Tail(s)) ELSE s

RECURSIVE TrimEnd(_)
TrimEnd(s) ==
    IF s # <<>> /\ s[Len(s)] = " " THEN TrimEnd(SubSeq(s, 1, Len(s) - 1)) ELSE s

\* String.prototype.trim
Trim(s) == TrimEnd(TrimStart(s))

\* Faulty variant: the name is tested without trimming.
CustomerNameMissing_NoTrim(name) == name = <<>>

\* !customerName.trim()
CustomerNameMissing(name) == Trim(name) = <<>>

\* Faulty variant: the reference is tested without trimming.
UtrNumberMissing_NoTrim(utr) == utr = <<>>

\* !utrNumber.trim()
UtrNumberMissing(utr) == Trim(utr) = <<>>

TextInputs == {<<>>, <<" ">>, <<"a">>}

\* Faulty variant: the cart is never taken to be empty.
CartEmpty_Never(c) == FALSE

\* cart.length === 0
CartEmpty(c) == Len(c) = 0

\* restaurantData.cgst_rate || 0
OrZero(rate) == IF rate = Null THEN 0 ELSE rate[1]

TaxAmount(subtotal, rate) == (subtotal * rate) \div (100 * RateScale)

\* Faulty variant: the grand total leaves out the SGST amount.
ComputeTotals_DropsSgst(subtotal, cgst_rate, sgst_rate) ==
    LET cgstRate == OrZero(cgst_rate)
        sgstRate == OrZero(sgst_rate)
        cgstAmount == TaxAmount(subtotal, cgstRate)
        sgstAmount == TaxAmount(subtotal, sgstRate)
    IN  [subtotal |-> subtotal, cgstRate |-> cgstRate, sgstRate |-> sgstRate,
         cgstAmount |-> cgstAmount, sgstAmount |-> sgstAmount,
         grandTotal |-> subtotal + cgstAmount]

ComputeTotals(subtotal, cgst_rate, sgst_rate) ==
    LET cgstRate == OrZero(cgst_rate)
        sgstRate == OrZero(sgst_rate)
        cgstAmount == TaxAmount(subtotal, cgstRate)
        sgstAmount == TaxAmount(subtotal, sgstRate)
    IN  [subtotal |-> subtotal, cgstRate |-> cgstRate, sgstRate |-> sgstRate,
         cgstAmount |-> cgstAmount, sgstAmount |-> sgstAmount,
         grandTotal |-> subtotal + cgstAmount + sgstAmount]

\* cart.map(({ id, ...rest }) => rest)
StripIds(c) ==
    [k \in 1..Len(c) |->
        [menuItemId |-> c[k].menuItemId, name |-> c[k].name,
         price |-> c[k].price, quantity |-> c[k].quantity,
         variant |-> c[k].variant, addOns |-> c[k].addOns,
         total |-> c[k].total]]

(***************************************************************************)
(* Checkout.  placeOrder runs up to its first await inside the click that  *)
(* calls it; each later await is a separate step on the request record,    *)
(* which holds the values the call closed over and its local variables.    *)
(***************************************************************************)
PlaceOrder(paymentMethod, maxSubmissions) ==
    IF CartEmpty(cart)
    THEN UNCHANGED <<orderLoading, toast, requests, submitted>>
    ELSE IF paymentMethod = "pay_online" /\ UtrNumberMissing(utrNumber)
    THEN \* throws before the first await: catch and finally run at once
         /\ toast' = "Order Failed"
         /\ orderLoading' = FALSE
         /\ UNCHANGED <<requests, submitted>>
    ELSE /\ submitted < maxSubmissions
         /\ orderLoading' = TRUE
         /\ submitted' = submitted + 1
         /\ requests' = requests \cup
                {[rid |-> submitted + 1, pc |-> "select",
                  paymentMethod |-> paymentMethod, cart |-> cart,
                  customerName |-> customerName,
                  \* read by the pay_online branch only
                  utrNumber |-> IF paymentMethod = "pay_online"
                                THEN utrNumber ELSE <<>>,
                  totals |-> ComputeTotals(0, Null, Null)]}
         /\ UNCHANGED toast

\* Faulty variant: the payment choice is offered whatever the restaurant row says.
ProceedToPayment_AlwaysOffersChoice(maxSubmissions) ==
    IF CustomerNameMissing(customerName)
    THEN /\ toast' = "Customer Name Required"
         /\ UNCHANGED <<paymentStep, orderLoading, requests, submitted>>
    ELSE /\ paymentStep' = "payment_choice"
         /\ UNCHANGED <<orderLoading, toast, requests, submitted>>

ProceedToPayment(maxSubmissions) ==
    IF CustomerNameMissing(customerName)
    THEN /\ toast' = "Customer Name Required"
         /\ UNCHANGED <<paymentStep, orderLoading, requests, submitted>>
    ELSE IF restaurant.payment_enabled
    THEN /\ paymentStep' = "payment_choice"
         /\ UNCHANGED <<orderLoading, toast, requests, submitted>>
    ELSE /\ PlaceOrder("pay_at_counter", maxSubmissions)
         /\ UNCHANGED paymentStep

othersOfCheckout == <<cartVars, storeVars, restaurant, navigateTo, page,
                      checkoutTotals, billPage, billingVars, staffVars>>

\* onChange={(e) => setCustomerName(e.target.value)}; the input is rendered
\* in the cart view when the cart has lines
TypeCustomerName(s) ==
    /\ CartViewShown
    /\ ~CartEmpty(cart)
    /\ customerName' = s
    /\ UNCHANGED <<utrNumber, showCart, paymentStep, orderLoading, toast,
                   requests, submitted>>
    /\ UNCHANGED othersOfCheckout

\* onChange={(e) => setUtrNumber(e.target.value)}
TypeUtrNumber(s) ==
    /\ PanelOpen
    /\ paymentStep = "pay_online"
    /\ utrNumber' = s
    /\ UNCHANGED <<customerName, showCart, paymentStep, orderLoading, toast,
                   requests, submitted>>
    /\ UNCHANGED othersOfCheckout

\* "Proceed to Payment": rendered when the cart has lines,
\* disabled={orderLoading || !customerName.trim()}
ClickProceedToPayment(maxSubmissions) ==
    /\ CartViewShown
    /\ ~CartEmpty(cart)
    /\ ~(orderLoading \/ CustomerNameMissing(customerName))
    /\ ProceedToPayment(maxSubmissions)
    /\ UNCHANGED <<formVars, showCart>>
    /\ UNCHANGED othersOfCheckout

\* "Pay Online": onClick={() => setPaymentStep('pay_online')}
ClickPayOnline ==
    /\ PanelOpen
    /\ paymentStep = "payment_choice"
    /\ paymentStep' = "pay_online"
    /\ UNCHANGED <<formVars, showCart, orderLoading, toast, requests, submitted>>
    /\ UNCHANGED othersOfCheckout

\* "Pay at Counter": onClick={() => placeOrder('pay_at_counter')}
ClickPayAtCounter(maxSubmissions) ==
    /\ PanelOpen
    /\ paymentStep = "payment_choice"
    /\ PlaceOrder("pay_at_counter", maxSubmissions)
    /\ UNCHANGED <<formVars, showCart, paymentStep>>
    /\ UNCHANGED othersOfCheckout

\* "Back to Cart": onClick={() => setPaymentStep('cart')}
ClickBackToCart ==
    /\ PanelOpen
    /\ paymentStep = "payment_choice"
    /\ paymentStep' = "cart"
    /\ UNCHANGED <<formVars, showCart, orderLoading, toast, requests, submitted>>
    /\ UNCHANGED othersOfCheckout

\* "Back": onClick={() => setPaymentStep('payment_choice')}
ClickBack ==
    /\ PanelOpen
    /\ paymentStep = "pay_online"
    /\ paymentStep' = "payment_choice"
    /\ UNCHANGED <<formVars, showCart, orderLoading, toast, requests, submitted>>
    /\ UNCHANGED othersOfCheckout

\* "Confirm & Place Order": disabled={orderLoading || !utrNumber.trim()}
ClickConfirmAndPlaceOrder(maxSubmissions) ==
    /\ PanelOpen
    /\ paymentStep = "pay_online"
    /\ ~(orderLoading \/ UtrNumberMissing(utrNumber))
    /\ PlaceOrder("pay_online", maxSubmissions)
    /\ UNCHANGED <<formVars, showCart, paymentStep>>
    /\ UNCHANGED othersOfCheckout

\* Faulty variant: the failure path also sets the timer that opens the bill.
RequestFails_SchedulesNavigation(r) ==
    /\ toast' = "Order Failed"
    /\ orderLoading' = FALSE
    /\ requests' = requests \ {r}
    /\ navigateTo' = navigateTo \cup {r.rid}

\* catch { toast 'Order Failed' } finally { setOrderLoading(false) }
RequestFails(r) ==
    /\ toast' = "Order Failed"
    /\ orderLoading' = FALSE
    /\ requests' = requests \ {r}
    /\ UNCHANGED navigateTo

\* toast 'Order Placed!'; setTimeout(navigate to the bill, 1500); finally
RequestSucceeds(r) ==
    /\ toast' = "Order Placed!"
    /\ navigateTo' = navigateTo \cup {r.rid}
    /\ orderLoading' = FALSE
    /\ requests' = requests \ {r}

\* The selects of the restaurant, branch and table rows resolve; found says
\* whether the restaurant and branch rows came back.
SelectsResolve(r, found) ==
    /\ r \in requests
    /\ r.pc = "select"
    /\ IF ~found
       THEN RequestFails(r)
       ELSE /\ requests' = (requests \ {r}) \cup
                   {[r EXCEPT !.pc = "insert_order",
                              !.totals = ComputeTotals(GetCartSubtotal(r.cart),
                                                       dbRestaurant.cgst_rate,
                                                       dbRestaurant.sgst_rate)]}
            /\ UNCHANGED <<toast, orderLoading, navigateTo>>
    /\ UNCHANGED <<cartVars, panelVars, formVars, storeVars, restaurant,
                   submitted, page, checkoutTotals, billPage, billingVars,
                   staffVars>>

\* Faulty variant: the Order stores the grand total where the bill expects the
\* subtotal.
OrderRow_StoresGrandTotal(r) ==
    [id |-> r.rid, items |-> StripIds(r.cart), total |-> r.totals.grandTotal,
     status |-> "pending", source |-> "online",
     customer_name |-> Trim(r.customerName)]

OrderRow(r) ==
    [id |-> r.rid, items |-> StripIds(r.cart), total |-> r.totals.subtotal,
     status |-> "pending", source |-> "online",
     customer_name |-> Trim(r.customerName)]

\* Faulty variant: the Payment stores the subtotal instead of the grand total.
PaymentRow_StoresSubtotal(r) ==
    [order_id |-> r.rid, customer_name |-> Trim(r.customerName),
     utr_number |-> Trim(r.utrNumber), amount |-> r.totals.subtotal,
     status |-> "pending"]

PaymentRow(r) ==
    [order_id |-> r.rid, customer_name |-> Trim(r.customerName),
     utr_number |-> Trim(r.utrNumber), amount |-> r.totals.grandTotal,
     status |-> "pending"]

(***************************************************************************)
(* Realtime: the orders table is in the supabase_realtime publication, and *)
(* OrdersPage subscribes to every change of it while it is mounted.  The   *)
(* staff browser whose OrdersPage is followed is ordersPage; changes made  *)
(* while it is not mounted are published to nobody.                        *)
(***************************************************************************)
\* useState([]) for the list; no fetchOrders call started.  The field failed
\* records that a fetchOrders call of the page has ended in its catch.
NoOrdersPage ==
    [pc |-> "unmounted", orders |-> {}, toast |-> None, fetches |-> {},
     started |-> 0, failed |-> FALSE]

\* the payload of a postgres_changes event
ChangePayload(eventType, new) == [eventType |-> eventType, new |-> new]

CanPublish == ordersPage.pc = "unmounted" \/ Len(channel) < MaxNotifications

Publish(payload) ==
    IF ordersPage.pc = "unmounted" THEN channel ELSE Append(channel, payload)

\* The insert into orders resolves, with a row or with an error.
InsertOrderResolves(r, ok) ==
    /\ r \in requests
    /\ r.pc = "insert_order"
    /\ IF ~ok
       THEN RequestFails(r) /\ UNCHANGED <<orders, checkoutTotals, channel>>
       ELSE /\ CanPublish
            /\ orders' = orders \cup {OrderRow(r)}
            /\ channel' = Publish(ChangePayload("INSERT", OrderRow(r)))
            /\ checkoutTotals' = checkoutTotals \cup
                   {[order_id |-> r.rid, grandTotal |-> r.totals.grandTotal]}
            /\ IF r.paymentMethod = "pay_online"
               THEN /\ requests' = (requests \ {r}) \cup
                           {[r EXCEPT !.pc = "insert_payment"]}
                    /\ UNCHANGED <<toast, orderLoading, navigateTo>>
               ELSE RequestSucceeds(r)
    /\ UNCHANGED <<cartVars, panelVars, formVars, dbRestaurant, payments,
                   restaurant, submitted, page, billPage, billingVars,
                   ordersPage>>

\* The insert into payments resolves; its result is not looked at.
InsertPaymentResolves(r, ok) ==
    /\ r \in requests
    /\ r.pc = "insert_payment"
    /\ payments' = IF ok THEN payments \cup {PaymentRow(r)} ELSE payments
    /\ RequestSucceeds(r)
    /\ UNCHANGED <<cartVars, panelVars, formVars, dbRestaurant, orders,
                   restaurant, submitted, page, checkoutTotals, billPage,
                   billingVars, staffVars>>

\* BillPage before it is mounted, and as it mounts for the order of its
\* route: useState(null) for the rows, and the effect starts fetchOrderData.
NoBillPage ==
    [orderId |-> Null, pc |-> "unmounted", restaurant |-> Null, order |-> Null]

MountBillPage(o) ==
    [orderId |-> Some(o), pc |-> "select_restaurant", restaurant |-> Null,
     order |-> Null]

\* The timer set after a successful order fires: navigate to the bill page.
Navigate(o) ==
    /\ o \in navigateTo
    /\ navigateTo' = navigateTo \ {o}
    /\ page' = "bill"
    /\ billPage' = MountBillPage(o)
    /\ UNCHANGED <<cartVars, panelVars, formVars, storeVars, orderLoading,
                   toast, restaurant, requests, submitted, checkoutTotals,
                   billingVars, staffVars>>

(***************************************************************************)
(* Initial state: the page has mounted and loaded the restaurant row.      *)
(***************************************************************************)
\* The AFTER UPDATE triggers the migrations create on the orders table.
Triggers == {"on_order_completed", "on_order_completed_create_bill"}

RateValues == {Null, Some(0), Some(25)}

RestaurantRows ==
    [cgst_rate : RateValues, sgst_rate : RateValues, payment_enabled : BOOLEAN]

PageInit ==
    /\ cart = <<>>
    /\ now = 0
    /\ selectedItemForVariants = None
    /\ selectedVariant = Null
    /\ selectedAddOns = <<>>
    /\ showCart = FALSE
    /\ paymentStep = "cart"
    /\ customerName = <<>>
    /\ utrNumber = <<>>
    /\ orderLoading = FALSE
    /\ toast = None
    /\ requests = {}
    /\ submitted = 0
    /\ orders = {}
    /\ payments = {}
    /\ navigateTo = {}
    /\ page = "menu"
    /\ checkoutTotals = {}
    /\ billPage = NoBillPage
    /\ bills = <<>>
    /\ channel = <<>>

CartInit ==
    /\ PageInit
    /\ triggers = Triggers
    /\ ordersPage = NoOrdersPage
    /\ dbRestaurant = [cgst_rate |-> Some(25), sgst_rate |-> Some(25),
                       payment_enabled |-> TRUE]
    /\ restaurant = dbRestaurant

CartNext ==
    \/ \E i \in Items : ClickAddToCart(i, MaxCartLines)
    \/ \E v \in {Large, Mini} : SelectVariant(v)
    \/ HandleAddOnToggle(Cheese)
    \/ HandleConfirm
    \/ CloseDialog
    \/ OpenCart
    \/ CloseCart
    \/ \E k \in 1..MaxCartLines : ClickPlus(k, MaxQty)
    \/ \E k \in 1..MaxCartLines : ClickMinus(k)

SpecCart == CartInit /\ [][CartNext]_vars

(***************************************************************************)
(* Carts the diner can have composed before opening the cart panel: line k *)
(* was added at time k and then given its quantity (SpecCart explores how  *)
(* the menu, the dialog and the +/- buttons compose a cart).               *)
(***************************************************************************)
Burger == [item |-> "burger", variant |-> Null, addOns |-> <<>>]

LineChoices ==
    {Burger} \cup
    {[item |-> "pizza", variant |-> Some(v), addOns |-> a] :
        v \in {Large, Mini}, a \in {<<>>, <<Cheese>>}}

AddedInTurn(choices) ==
    [k \in 1..Len(choices) |->
        NewCartItem(MenuItem(choices[k].item), choices[k].variant,
                    choices[k].addOns, k)]

RECURSIVE WithQuantities(_, _, _)
WithQuantities(c, quantities, k) ==
    IF k > Len(c) THEN c
    ELSE WithQuantities(UpdateCartItemQuantity(c, c[k].id, quantities[k]),
                        quantities, k + 1)

ComposedCarts(choiceSet, maxLines, maxQty) ==
    UNION {{WithQuantities(AddedInTurn(choices), quantities, 1) :
                choices \in [1..n -> choiceSet],
                quantities \in [1..n -> 1..maxQty]} : n \in 0..maxLines}

ComposedInit(c) ==
    /\ cart = c
    /\ now = Len(c)
    /\ toast = IF Len(c) = 0 THEN None ELSE "Added to Cart"
    /\ selectedItemForVariants = None
    /\ selectedVariant = Null
    /\ selectedAddOns = <<>>
    /\ utrNumber = <<>>
    /\ orderLoading = FALSE
    /\ requests = {}
    /\ submitted = 0
    /\ orders = {}
    /\ payments = {}
    /\ navigateTo = {}
    /\ page = "menu"
    /\ checkoutTotals = {}
    /\ billPage = NoBillPage
    /\ bills = <<>>
    /\ channel = <<>>

(***************************************************************************)
(* Pricing: every composed cart and every tax configuration, from the cart *)
(* view with the name entered up to the point where placeOrder has         *)
(* computed the totals it is about to persist.                             *)
(***************************************************************************)
PricingInit ==
    /\ \E c \in ComposedCarts(LineChoices, MaxPricingLines, MaxPricingQty) :
          ComposedInit(c)
    /\ showCart = TRUE
    /\ paymentStep = "cart"
    /\ customerName = <<"a">>
    /\ dbRestaurant \in RestaurantRows
    /\ restaurant = dbRestaurant
    /\ triggers = Triggers
    /\ ordersPage = NoOrdersPage

PricingNext ==
    \/ ClickProceedToPayment(MaxSubmissions)
    \/ ClickPayAtCounter(MaxSubmissions)
    \/ ClickBackToCart
    \/ \E r \in requests, found \in BOOLEAN : SelectsResolve(r, found)

SpecPricing == PricingInit /\ [][PricingNext]_vars

(***************************************************************************)
(* Checkout workflow: every control of the cart panel and every await of   *)
(* placeOrder, starting on the menu with a composed cart of burgers.       *)
(***************************************************************************)
CheckoutRows ==
    {[cgst_rate |-> Some(25), sgst_rate |-> Some(25), payment_enabled |-> e] :
        e \in BOOLEAN}

Init ==
    /\ \E c \in ComposedCarts({Burger}, MaxCheckoutLines, 1) : ComposedInit(c)
    /\ showCart = FALSE
    /\ paymentStep = "cart"
    /\ customerName = <<>>
    /\ dbRestaurant \in CheckoutRows
    /\ restaurant = dbRestaurant
    /\ triggers = Triggers
    /\ ordersPage = NoOrdersPage

Next ==
    \/ OpenCart
    \/ CloseCart
    \/ \E k \in 1..MaxCheckoutLines : ClickPlus(k, MaxCheckoutQty)
    \/ \E k \in 1..MaxCheckoutLines : ClickMinus(k)
    \/ \E s \in TextInputs : TypeCustomerName(s)
    \/ \E s \in TextInputs : TypeUtrNumber(s)
    \/ ClickProceedToPayment(MaxSubmissions)
    \/ ClickPayOnline
    \/ ClickPayAtCounter(MaxSubmissions)
    \/ ClickBackToCart
    \/ ClickBack
    \/ ClickConfirmAndPlaceOrder(MaxSubmissions)
    \/ \E r \in requests, found \in BOOLEAN : SelectsResolve(r, found)
    \/ \E r \in requests, ok \in BOOLEAN : InsertOrderResolves(r, ok)
    \/ \E r \in requests, ok \in BOOLEAN : InsertPaymentResolves(r, ok)
    \/ \E o \in navigateTo : Navigate(o)

Spec == Init /\ [][Next]_vars

(***************************************************************************)
(* Totals on screen.  The cart view, the payment-choice view and the       *)
(* pay-online view each compute the totals from the cart and the           *)
(* restaurant row the page loaded when it mounted; the bill page computes  *)
(* them from the order row and the restaurant row it fetched.              *)
(***************************************************************************)
\* (restaurant?.cgst_rate || 0), ..., subtotal + cgstAmount + sgstAmount
ViewTotals(subtotal, rest) ==
    LET cgstRate == OrZero(rest.cgst_rate)
        sgstRate == OrZero(rest.sgst_rate)
        cgstAmount == TaxAmount(subtotal, cgstRate)
        sgstAmount == TaxAmount(subtotal, sgstRate)
    IN  [subtotal |-> subtotal, cgstRate |-> cgstRate, sgstRate |-> sgstRate,
         cgstAmount |-> cgstAmount, sgstAmount |-> sgstAmount,
         grandTotal |-> subtotal + cgstAmount + sgstAmount]

\* The totals block of the cart view is rendered with the cart's lines.
CartSummaryShown == CartViewShown /\ ~CartEmpty(cart)

CartViewTotals == ViewTotals(GetCartSubtotal(cart), restaurant)

\* Faulty variant: the tax line is rendered without testing the amount.
CartShowsCgstLine_Always == CartSummaryShown

\* {cgstAmount > 0 && <div>CGST @ ...</div>}
CartShowsCgstLine == CartSummaryShown /\ CartViewTotals.cgstAmount > 0
CartShowsSgstLine == CartSummaryShown /\ CartViewTotals.sgstAmount > 0

PayOnlineViewShown == PanelOpen /\ paymentStep = "pay_online"

\* <p>Amount: {grandTotal.toFixed(2)}</p>
PayOnlineViewAmount == ViewTotals(GetCartSubtotal(cart), restaurant).grandTotal

\* const subtotal = order.total; ... in BillPage
BillPageTotals(order, rest) ==
    LET subtotal == order.total
        cgstAmount == TaxAmount(subtotal, OrZero(rest.cgst_rate))
        sgstAmount == TaxAmount(subtotal, OrZero(rest.sgst_rate))
    IN  [subtotal |-> subtotal, cgstAmount |-> cgstAmount,
         sgstAmount |-> sgstAmount,
         grandTotal |-> subtotal + cgstAmount + sgstAmount]

\* The receipt is rendered once loading is over and both rows are there.
BillShown ==
    /\ page = "bill"
    /\ billPage.pc = "done"
    /\ billPage.order # Null
    /\ billPage.restaurant # Null

BillTotals == BillPageTotals(billPage.order[1], billPage.restaurant[1])

BillShowsCgstLine == BillShown /\ BillTotals.cgstAmount > 0
BillShowsSgstLine == BillShown /\ BillTotals.sgstAmount > 0

othersOfBill == <<cartVars, panelVars, formVars, storeVars, orderLoading,
                  restaurant, requests, submitted, navigateTo, page,
                  checkoutTotals, billingVars, staffVars>>

\* fetchOrderData: the select of the restaurant row resolves.
BillRestaurantResolves(ok) ==
    /\ page = "bill"
    /\ billPage.pc = "select_restaurant"
    /\ IF ok
       THEN /\ billPage' =
                  [billPage EXCEPT
                      !.restaurant = Some([cgst_rate |-> dbRestaurant.cgst_rate,
                                           sgst_rate |-> dbRestaurant.sgst_rate]),
                      !.pc = "select_order"]
            /\ UNCHANGED toast
       ELSE /\ billPage' = [billPage EXCEPT !.pc = "done"]
            /\ toast' = "Error"
    /\ UNCHANGED othersOfBill

\* fetchOrderData: the select of the order row resolves.  The select of the
\* table row that follows only fills in the table number.
BillOrderResolves(ok) ==
    /\ page = "bill"
    /\ billPage.pc = "select_order"
    /\ IF ok /\ \E o \in orders : o.id = billPage.orderId[1]
       THEN /\ \E o \in orders :
                  /\ o.id = billPage.orderId[1]
                  /\ billPage' = [billPage EXCEPT !.order = Some(o),
                                                  !.pc = "done"]
            /\ UNCHANGED toast
       ELSE /\ billPage' = [billPage EXCEPT !.pc = "done"]
            /\ toast' = "Error"
    /\ UNCHANGED othersOfBill

(***************************************************************************)
(* From the cart to the bill: every composed cart of one line and every    *)
(* tax configuration, paid at the counter, then the bill page loads.       *)
(***************************************************************************)
BillInit ==
    /\ \E c \in ComposedCarts(LineChoices, MaxBillLines, MaxBillQty) :
          ComposedInit(c)
    /\ showCart = TRUE
    /\ paymentStep = "cart"
    /\ customerName = <<"a">>
    /\ dbRestaurant \in RestaurantRows
    /\ restaurant = dbRestaurant
    /\ triggers = Triggers
    /\ ordersPage = NoOrdersPage

BillNext ==
    \/ ClickProceedToPayment(MaxSubmissions)
    \/ ClickPayAtCounter(MaxSubmissions)
    \/ \E r \in requests, found \in BOOLEAN : SelectsResolve(r, found)
    \/ \E r \in requests, ok \in BOOLEAN : InsertOrderResolves(r, ok)
    \/ \E o \in navigateTo : Navigate(o)
    \/ \E ok \in BOOLEAN : BillRestaurantResolves(ok)
    \/ \E ok \in BOOLEAN : BillOrderResolves(ok)

SpecBill == BillInit /\ [][BillNext]_vars

(***************************************************************************)
(* Back office.  The owner saves tax rates on the GST page, staff change   *)
(* an order's status on the orders page, and the store's triggers on the   *)
(* orders table create bills.                                              *)
(***************************************************************************)
\* parseFloat(e.target.value) || 0: the form holds numbers, never null
RateInputs == {0, 25}

\* GSTPage.handleSave with the form holding the rates cgst and sgst; the
\* update is applied or rejected by the store.
HandleSave(cgst, sgst, ok) ==
    /\ dbRestaurant' = IF ok
                       THEN [dbRestaurant EXCEPT !.cgst_rate = Some(cgst),
                                                 !.sgst_rate = Some(sgst)]
                       ELSE dbRestaurant
    /\ UNCHANGED <<cartVars, panelVars, formVars, orders, payments,
                   orderLoading, toast, restaurant, requests, submitted,
                   navigateTo, page, checkoutTotals, billPage, billingVars,
                   staffVars>>

\* const orderStatuses = [...]: the options of the status select of each row
orderStatuses ==
    {"pending", "in_preparation", "ready", "served", "completed", "cancelled"}

\* INSERT INTO public.bills (...) VALUES (NEW.id, ..., 'pending')
BillRow(new, rest) ==
    LET v_subtotal == new.total
        v_cgst_amount == TaxAmount(v_subtotal, OrZero(rest.cgst_rate))
        v_sgst_amount == TaxAmount(v_subtotal, OrZero(rest.sgst_rate))
    IN  [order_id |-> new.id, subtotal |-> v_subtotal,
         cgst_amount |-> v_cgst_amount, sgst_amount |-> v_sgst_amount,
         total |-> v_subtotal + v_cgst_amount + v_sgst_amount,
         status |-> "pending"]

\* handle_completed_order, run by the trigger on_order_completed_create_bill
handle_completed_order(old, new, b) ==
    IF new.status = "completed" /\ old.status # "completed"
    THEN Append(b, BillRow(new, dbRestaurant))
    ELSE b

\* create_bill_for_completed_order, run by the trigger on_order_completed
\* WHEN (OLD.status IS DISTINCT FROM 'completed' AND NEW.status = 'completed')
create_bill_for_completed_order(old, new, b) ==
    IF ~(old.status # "completed" /\ new.status = "completed") THEN b
    ELSE IF \E k \in 1..Len(b) : b[k].order_id = new.id THEN b
    ELSE Append(b, BillRow(new, dbRestaurant))

\* The row triggers of one update fire in the order of their names.
FireTriggers(old, new, b) ==
    LET b1 == IF "on_order_completed" \in triggers
              THEN create_bill_for_completed_order(old, new, b) ELSE b
    IN  IF "on_order_completed_create_bill" \in triggers
        THEN handle_completed_order(old, new, b1) ELSE b1

\* status TEXT ... CHECK (status IN (...)) of the orders table
OrdersStatusCheck ==
    {"pending", "preparing", "ready", "served", "completed", "cancelled"}

\* OrdersPage.handleStatusChange(order.id, newStatus): the update of the row
\* and the triggers it fires commit together, or the store rejects the update,
\* as it does when the new status fails the CHECK of the column.  The select
\* of a row shows the status the page fetched last, which may be behind the
\* store, so any option can be chosen for any row listed.  While ordersPage
\* is not mounted the change comes from another staff browser.
HandleStatusChange(o, newStatus, ok) ==
    /\ o \in orders
    /\ newStatus \in orderStatuses
    /\ ordersPage.pc = "mounted" => \E row \in ordersPage.orders : row.id = o.id
    /\ LET new == [o EXCEPT !.status = newStatus] IN
         IF ok /\ newStatus \in OrdersStatusCheck
         THEN /\ Len(FireTriggers(o, new, bills)) <= MaxBills
              /\ CanPublish
              /\ orders' = (orders \ {o}) \cup {new}
              /\ bills' = FireTriggers(o, new, bills)
              /\ channel' = Publish(ChangePayload("UPDATE", new))
              /\ ordersPage' = IF ordersPage.pc = "mounted"
                               THEN [ordersPage EXCEPT !.toast = "Status Updated"]
                               ELSE ordersPage
         ELSE /\ UNCHANGED <<orders, bills, channel>>
              /\ ordersPage' = IF ordersPage.pc = "mounted"
                               THEN [ordersPage EXCEPT !.toast = "Update Failed"]
                               ELSE ordersPage
    /\ UNCHANGED <<cartVars, panelVars, formVars, dbRestaurant, payments,
                   orderLoading, toast, restaurant, requests, submitted,
                   navigateTo, page, checkoutTotals, billPage, triggers>>

(***************************************************************************)
(* Orders from placement to completion: one burger in the cart, the name   *)
(* entered, either payment path, with the owner and the staff at work and  *)
(* any of the trigger deployments the migrations can leave behind.         *)
(***************************************************************************)
OfficeRows ==
    [cgst_rate : {Null, Some(25)}, sgst_rate : {Some(25)},
     payment_enabled : {TRUE}]

OfficeInit ==
    /\ \E c \in ComposedCarts({Burger}, 1, 1) : Len(c) = 1 /\ ComposedInit(c)
    /\ showCart = TRUE
    /\ paymentStep = "cart"
    /\ customerName = <<"a">>
    /\ dbRestaurant \in OfficeRows
    /\ restaurant = dbRestaurant
    /\ triggers \in (SUBSET Triggers) \ {{}}
    /\ ordersPage = NoOrdersPage

OfficeNext ==
    \/ ClickProceedToPayment(MaxSubmissions)
    \/ ClickPayOnline
    \/ TypeUtrNumber(<<"a">>)
    \/ ClickConfirmAndPlaceOrder(MaxSubmissions)
    \/ ClickPayAtCounter(MaxSubmissions)
    \/ \E r \in requests, found \in BOOLEAN : SelectsResolve(r, found)
    \/ \E r \in requests, ok \in BOOLEAN : InsertOrderResolves(r, ok)
    \/ \E r \in requests, ok \in BOOLEAN : InsertPaymentResolves(r, ok)
    \/ \E c \in RateInputs, s \in RateInputs, ok \in BOOLEAN : HandleSave(c, s, ok)
    \/ \E o \in orders, s \in orderStatuses, ok \in BOOLEAN :
          HandleStatusChange(o, s, ok)

SpecOffice == OfficeInit /\ [][OfficeNext]_vars

(***************************************************************************)
(* Repeated submission: one burger in the cart and the name entered; the   *)
(* diner keeps clicking while placeOrder calls are at their awaits and     *)
(* after they have resolved, until the timer opens the bill.               *)
(***************************************************************************)
ResubmitInit ==
    /\ \E c \in ComposedCarts({Burger}, 1, 1) : Len(c) = 1 /\ ComposedInit(c)
    /\ showCart = TRUE
    /\ paymentStep = "cart"
    /\ customerName = <<"a">>
    /\ dbRestaurant \in CheckoutRows
    /\ restaurant = dbRestaurant
    /\ triggers = Triggers
    /\ ordersPage = NoOrdersPage

ResubmitNext ==
    \/ ClickProceedToPayment(MaxResubmissions)
    \/ ClickPayOnline
    \/ TypeUtrNumber(<<"a">>)
    \/ ClickConfirmAndPlaceOrder(MaxResubmissions)
    \/ ClickPayAtCounter(MaxResubmissions)
    \/ ClickBackToCart
    \/ ClickBack
    \/ \E r \in requests, found \in BOOLEAN : SelectsResolve(r, found)
    \/ \E r \in requests, ok \in BOOLEAN : InsertOrderResolves(r, ok)
    \/ \E r \in requests, ok \in BOOLEAN : InsertPaymentResolves(r, ok)
    \/ \E o \in navigateTo : Navigate(o)

SpecResubmit == ResubmitInit /\ [][ResubmitNext]_vars

(***************************************************************************)
(* The staff orders page.  fetchOrders awaits the select of the restaurant *)
(* row and then the select of the orders; the store runs the second select *)
(* when the request reaches it and the rows reach the page when the        *)
(* response arrives, so every fetchOrders call in flight is a record with  *)
(* its position and the rows it carries.                                   *)
(***************************************************************************)
\* useEffect on mount: fetchOrders() and the subscription to the channel
MountOrdersPage ==
    [pc |-> "mounted", orders |-> {}, toast |-> None,
     fetches |-> {[fid |-> 1, pc |-> "select_restaurant", data |-> {}]},
     started |-> 1, failed |-> FALSE]

\* fetchOrders up to its first await
FetchOrders(p) ==
    [p EXCEPT !.started = @ + 1,
              !.fetches = @ \cup {[fid |-> p.started + 1,
                                   pc |-> "select_restaurant", data |-> {}]}]

othersOfOrdersPage == <<cartVars, panelVars, formVars, storeVars, orderLoading,
                        toast, restaurant, requests, submitted, navigateTo,
                        page, checkoutTotals, billPage, billingVars>>

\* The callback of the subscription runs for the event at the head of the
\* channel; redelivered says whether the channel delivers that event again.
OnOrdersChange(redelivered) ==
    /\ ordersPage.pc = "mounted"
    /\ channel # <<>>
    /\ ordersPage.started < MaxFetches
    /\ ordersPage' = [FetchOrders(ordersPage) EXCEPT !.toast = "New Update"]
    /\ channel' = IF redelivered THEN channel ELSE Tail(channel)
    /\ UNCHANGED othersOfOrdersPage

\* fetchOrders: the select of the restaurant row resolves, and with a row the
\* select of the orders is sent.
FetchRestaurantResolves(f, found) ==
    /\ f \in ordersPage.fetches
    /\ f.pc = "select_restaurant"
    /\ ordersPage' =
          IF found
          THEN [ordersPage EXCEPT
                   !.fetches = (@ \ {f}) \cup {[f EXCEPT !.pc = "select_orders"]}]
          ELSE [ordersPage EXCEPT !.fetches = @ \ {f}, !.toast = "Error",
                                  !.failed = TRUE]
    /\ UNCHANGED <<channel, othersOfOrdersPage>>

\* The store runs the select of the orders: the response carries the rows of
\* this moment.
FetchOrdersSelected(f) ==
    /\ f \in ordersPage.fetches
    /\ f.pc = "select_orders"
    /\ ordersPage' =
          [ordersPage EXCEPT
              !.fetches = (@ \ {f}) \cup
                             {[f EXCEPT !.pc = "response", !.data = orders]}]
    /\ UNCHANGED <<channel, othersOfOrdersPage>>

\* fetchOrders: the response of the select of the orders arrives, with the
\* rows or with an error: setOrders(data || []).
FetchOrdersResolves(f, ok) ==
    /\ f \in ordersPage.fetches
    /\ f.pc = "response"
    /\ ordersPage' =
          IF ok
          THEN [ordersPage EXCEPT !.fetches = @ \ {f}, !.orders = f.data]
          ELSE [ordersPage EXCEPT !.fetches = @ \ {f}, !.toast = "Error",
                                  !.failed = TRUE]
    /\ UNCHANGED <<channel, othersOfOrdersPage>>

(***************************************************************************)
(* Staff at the orders page while a diner orders one burger at the         *)
(* counter: the page has just mounted.                                     *)
(***************************************************************************)
StaffInit ==
    /\ \E c \in ComposedCarts({Burger}, 1, 1) : Len(c) = 1 /\ ComposedInit(c)
    /\ showCart = TRUE
    /\ paymentStep = "cart"
    /\ customerName = <<"a">>
    /\ dbRestaurant = [cgst_rate |-> Some(25), sgst_rate |-> Some(25),
                       payment_enabled |-> FALSE]
    /\ restaurant = dbRestaurant
    /\ triggers = {"on_order_completed"}
    /\ ordersPage = MountOrdersPage

StaffNext ==
    \/ ClickProceedToPayment(MaxSubmissions)
    \/ \E r \in requests, found \in BOOLEAN : SelectsResolve(r, found)
    \/ \E r \in requests, ok \in BOOLEAN : InsertOrderResolves(r, ok)
    \/ \E o \in orders, s \in orderStatuses, ok \in BOOLEAN :
          HandleStatusChange(o, s, ok)
    \/ \E redelivered \in BOOLEAN : OnOrdersChange(redelivered)
    \/ \E f \in ordersPage.fetches, found \in BOOLEAN :
          FetchRestaurantResolves(f, found)
    \/ \E f \in ordersPage.fetches : FetchOrdersSelected(f)
    \/ \E f \in ordersPage.fetches, ok \in BOOLEAN : FetchOrdersResolves(f, ok)

SpecStaff == StaffInit /\ [][StaffNext]_vars

(***************************************************************************)
(* The earlier revision of the ordering page, which inserts the Bill       *)
(* itself when it places the order.  It has no payment steps (paymentStep  *)
(* stays 'cart'), and it shares the variant dialog and the bill route with *)
(* the later revision.                                                     *)
(***************************************************************************)
\* Math.random() as one of a few values; two lines get the same id with
\* negligible probability, so a draw never repeats an id of the cart.
RandomDraws == {0, 1}

\* `${item.id}-${Date.now()}-${Math.random()}`
OldCartItemId(item, t, rnd) == <<item.id, t, rnd>>

OldHandleAddToCart(item, variant, addOns, t, rnd) ==
    IF HasVariants(item) /\ variant = Null
    THEN /\ selectedItemForVariants' = item.id
         /\ selectedVariant' = Some(item.variants[1])
         /\ selectedAddOns' = <<>>
         /\ UNCHANGED <<cart, now, toast>>
    ELSE /\ \A k \in 1..Len(cart) : cart[k].id # OldCartItemId(item, t, rnd)
         /\ cart' = Append(cart, [NewCartItem(item, variant, addOns, t)
                                     EXCEPT !.id = OldCartItemId(item, t, rnd)])
         /\ now' = t
         /\ toast' = "Added to Cart"
         /\ selectedItemForVariants' = None
         /\ selectedVariant' = Null
         /\ selectedAddOns' = <<>>

\* total: (item.price + item.addOns.reduce(...)) * newQuantity
OldUpdateCartItemQuantity(c, cartItemId, newQuantity) ==
    IF newQuantity <= 0
    THEN RemoveId(c, cartItemId)
    ELSE [k \in 1..Len(c) |->
            IF c[k].id = cartItemId
            THEN [c[k] EXCEPT !.quantity = newQuantity,
                              !.total = (c[k].price + SumPrices(c[k].addOns))
                                          * newQuantity]
            ELSE c[k]]

RECURSIVE GetCartTotal(_)
\* cart.reduce((sum, item) => sum + item.total * item.quantity, 0)
GetCartTotal(c) ==
    IF c = <<>> THEN 0
    ELSE c[1].total * c[1].quantity + GetCartTotal(Tail(c))

OldClickAddToCart(i, maxLines) ==
    /\ MenuClickable
    /\ Len(cart) < maxLines
    /\ \E t \in Clock, rnd \in RandomDraws :
          OldHandleAddToCart(MenuItem(i), Null, <<>>, t, rnd)
    /\ UNCHANGED othersOfCart

\* handleConfirm of the dialog, with onAddToCart the page's handleAddToCart
OldHandleConfirm ==
    /\ DialogOpen
    /\ LET item == MenuItem(selectedItemForVariants) IN
         IF HasVariants(item) /\ selectedVariant = Null
         THEN UNCHANGED <<cart, now, selectedItemForVariants, selectedVariant,
                          selectedAddOns, toast>>
         ELSE \E t \in Clock, rnd \in RandomDraws :
                 OldHandleAddToCart(item, selectedVariant, selectedAddOns, t, rnd)
    /\ UNCHANGED othersOfCart

\* onClick={() => setShowCart(true)}
OldOpenCart ==
    /\ MenuClickable
    /\ showCart' = TRUE
    /\ UNCHANGED <<cartVars, formVars, storeVars, paymentStep, orderLoading,
                   toast, restaurant, requests, submitted, navigateTo, page,
                   checkoutTotals, billPage, billingVars, staffVars>>

OldClickPlus(k, maxQty) ==
    /\ PanelOpen
    /\ k \in 1..Len(cart)
    /\ cart[k].quantity < maxQty
    /\ cart' = OldUpdateCartItemQuantity(cart, cart[k].id, cart[k].quantity + 1)
    /\ UNCHANGED <<now, selectedItemForVariants, selectedVariant,
                   selectedAddOns, toast>>
    /\ UNCHANGED othersOfCart

OldClickMinus(k) ==
    /\ PanelOpen
    /\ k \in 1..Len(cart)
    /\ cart' = OldUpdateCartItemQuantity(cart, cart[k].id, cart[k].quantity - 1)
    /\ UNCHANGED <<now, selectedItemForVariants, selectedVariant,
                   selectedAddOns, toast>>
    /\ UNCHANGED othersOfCart

\* placeOrder of the earlier revision, up to its first await
OldPlaceOrder(maxSubmissions) ==
    IF CartEmpty(cart)
    THEN /\ toast' = "Empty Cart"
         /\ UNCHANGED <<orderLoading, requests, submitted>>
    ELSE IF CustomerNameMissing(customerName)
    THEN /\ toast' = "Customer Name Required"
         /\ UNCHANGED <<orderLoading, requests, submitted>>
    ELSE /\ submitted < maxSubmissions
         /\ orderLoading' = TRUE
         /\ submitted' = submitted + 1
         /\ requests' = requests \cup
                {[rid |-> submitted + 1, pc |-> "select", cart |-> cart,
                  customerName |-> customerName]}
         /\ UNCHANGED toast

\* "Place Order": rendered when the cart has lines,
\* disabled={orderLoading || !customerName.trim()}
OldClickPlaceOrder(maxSubmissions) ==
    /\ PanelOpen
    /\ ~CartEmpty(cart)
    /\ ~(orderLoading \/ CustomerNameMissing(customerName))
    /\ OldPlaceOrder(maxSubmissions)
    /\ UNCHANGED <<formVars, panelVars>>
    /\ UNCHANGED othersOfCheckout

\* The selects of the restaurant, branch and table rows resolve, and the
\* insert of a first branch where there is none; found says whether the
\* restaurant row and a branch row are there.
OldSelectsResolve(r, found) ==
    /\ r \in requests
    /\ r.pc = "select"
    /\ IF ~found
       THEN RequestFails(r)
       ELSE /\ requests' = (requests \ {r}) \cup {[r EXCEPT !.pc = "insert_order"]}
            /\ UNCHANGED <<toast, orderLoading, navigateTo>>
    /\ UNCHANGED <<cartVars, panelVars, formVars, storeVars, restaurant,
                   submitted, page, checkoutTotals, billPage, billingVars,
                   staffVars>>

\* items: cart, total: getCartTotal()
OldOrderRow(r) ==
    [id |-> r.rid, items |-> r.cart, total |-> GetCartTotal(r.cart),
     status |-> "pending", source |-> "online",
     customer_name |-> Trim(r.customerName)]

\* { order_id: order.id, total: getCartTotal(), status: 'pending' }
OldBillRow(r) ==
    [order_id |-> r.rid, total |-> GetCartTotal(r.cart), status |-> "pending"]

OldInsertOrderResolves(r, ok) ==
    /\ r \in requests
    /\ r.pc = "insert_order"
    /\ IF ~ok
       THEN RequestFails(r) /\ UNCHANGED <<orders, channel>>
       ELSE /\ CanPublish
            /\ orders' = orders \cup {OldOrderRow(r)}
            /\ channel' = Publish(ChangePayload("INSERT", OldOrderRow(r)))
            /\ requests' = (requests \ {r}) \cup {[r EXCEPT !.pc = "insert_bill"]}
            /\ UNCHANGED <<toast, orderLoading, navigateTo>>
    /\ UNCHANGED <<cartVars, panelVars, formVars, dbRestaurant, payments,
                   restaurant, submitted, page, checkoutTotals, billPage,
                   billingVars, ordersPage>>

\* The insert into bills resolves; an error is only logged.
OldInsertBillResolves(r, ok) ==
    /\ r \in requests
    /\ r.pc = "insert_bill"
    /\ ok => Len(bills) < MaxBills
    /\ bills' = IF ok THEN Append(bills, OldBillRow(r)) ELSE bills
    /\ RequestSucceeds(r)
    /\ UNCHANGED <<cartVars, panelVars, formVars, storeVars, restaurant,
                   submitted, page, checkoutTotals, billPage, triggers,
                   staffVars>>

OldInit ==
    /\ PageInit
    /\ triggers = {}
    /\ ordersPage = NoOrdersPage
    /\ dbRestaurant = [cgst_rate |-> Null, sgst_rate |-> Null,
                       payment_enabled |-> FALSE]
    /\ restaurant = dbRestaurant

OldNext ==
    \/ \E i \in Items : OldClickAddToCart(i, MaxOldLines)
    \/ \E v \in {Large, Mini} : SelectVariant(v)
    \/ HandleAddOnToggle(Cheese)
    \/ OldHandleConfirm
    \/ CloseDialog
    \/ OldOpenCart
    \/ CloseCart
    \/ \E k \in 1..MaxOldLines : OldClickPlus(k, MaxOldQty)
    \/ \E k \in 1..MaxOldLines : OldClickMinus(k)
    \/ TypeCustomerName(<<"a">>)
    \/ OldClickPlaceOrder(MaxSubmissions)
    \/ \E r \in requests, found \in BOOLEAN : OldSelectsResolve(r, found)
    \/ \E r \in requests, ok \in BOOLEAN : OldInsertOrderResolves(r, ok)
    \/ \E r \in requests, ok \in BOOLEAN : OldInsertBillResolves(r, ok)
    \/ \E o \in navigateTo : Navigate(o)

SpecOld == OldInit /\ [][OldNext]_vars

(***************************************************************************)
(* Cart properties                                                         *)
(***************************************************************************)
\* Unit price of a line as the data model defines it: the chosen variant's
\* price if there is one, else the item's base price, plus the add-on prices.
LineUnitPrice(l) ==
    (IF l.variant # Null THEN l.variant[1].price ELSE MenuItem(l.menuItemId).price)
      + SumPrices(l.addOns)

RECURSIVE SumUnitTimesQuantity(_)
SumUnitTimesQuantity(c) ==
    IF c = <<>> THEN 0
    ELSE LineUnitPrice(c[1]) * c[1].quantity + SumUnitTimesQuantity(Tail(c))

LinesCarryVariant ==
    \A k \in 1..Len(cart) :
        HasVariants(MenuItem(cart[k].menuItemId)) =>
            /\ cart[k].variant # Null
            /\ cart[k].variant[1] \in Range(MenuItem(cart[k].menuItemId).variants)

AddWithoutVariantOnlyAsks ==
    \A i \in Items :
        (HasVariants(MenuItem(i)) /\ ClickAddToCart(i, MaxCartLines)) =>
            (cart' = cart /\ selectedItemForVariants' = i)

\* C1: adding an item that declares variants without giving one leaves the
\* cart unchanged and opens the variant dialog for that item, and every cart
\* line of an item with variants carries one of the item's variants.
C1_VariantRequired == []LinesCarryVariant /\ [][AddWithoutVariantOnlyAsks]_vars

C1_Witness ==
    /\ selectedItemForVariants = "pizza"
    /\ Len(cart) = 1
    /\ cart[1].menuItemId = "pizza"
    /\ cart[1].variant = Some(Mini)

\* C3: after any adds and quantity changes the cart subtotal is the sum over
\* the lines of the unit price fixed at add time times the quantity.
C3_SubtotalIsSumOfUnitTimesQuantity ==
    GetCartSubtotal(cart) = SumUnitTimesQuantity(cart)

C3_Witness ==
    /\ Len(cart) = 2
    /\ cart[1].quantity = 3
    /\ cart[2].quantity = 2
    /\ cart[2].addOns = <<Cheese>>
    /\ GetCartSubtotal(cart) = 3 * 15000 + 2 * 22000

\* C4: a line's stored total is its unit price times its quantity.
C4_LineTotalIsUnitTimesQuantity ==
    \A k \in 1..Len(cart) :
        cart[k].total = LineUnitPrice(cart[k]) * cart[k].quantity

QuantitiesPositive == \A k \in 1..Len(cart) : cart[k].quantity >= 1

MinusAtOneRemoves ==
    \A k \in 1..Len(cart) :
        (cart[k].quantity = 1 /\ ClickMinus(k)) =>
            /\ Len(cart') < Len(cart)
            /\ \A j \in 1..Len(cart') : cart'[j].id # cart[k].id

\* C5: every cart line has a quantity of at least 1, and setting a line's
\* quantity to 0 removes the line.
C5_NoNonPositiveQuantity == []QuantitiesPositive /\ [][MinusAtOneRemoves]_vars

C5_Witness ==
    /\ showCart
    /\ toast = "Added to Cart"
    /\ cart = <<>>

IsAppendOf(c2, c1) == Len(c2) = Len(c1) + 1 /\ SubSeq(c2, 1, Len(c1)) = c1

AddAppendsOneLine ==
    /\ \A i \in Items :
          (~HasVariants(MenuItem(i)) /\ ClickAddToCart(i, MaxCartLines)) =>
              /\ IsAppendOf(cart', cart)
              /\ cart'[Len(cart')].quantity = 1
              /\ cart'[Len(cart')].menuItemId = i
              /\ cart'[Len(cart')].variant = Null
              /\ cart'[Len(cart')].total = MenuItem(i).price
    /\ (selectedVariant # Null /\ HandleConfirm) =>
              /\ IsAppendOf(cart', cart)
              /\ cart'[Len(cart')].quantity = 1
              /\ cart'[Len(cart')].menuItemId = selectedItemForVariants
              /\ cart'[Len(cart')].variant = selectedVariant
              /\ cart'[Len(cart')].addOns = selectedAddOns
              /\ cart'[Len(cart')].total =
                    selectedVariant[1].price + SumPrices(selectedAddOns)
              /\ (selectedVariant = Some(Large) /\ selectedAddOns = <<Cheese>>)
                    => cart'[Len(cart')].total = 22000

\* C6: an add with the variant supplied where the item has variants appends
\* exactly one line of quantity 1 priced at the variant's price (else the base
\* price) plus the chosen add-on prices; Large 200 with Cheese 20 gives 220.
C6_AddAppendsPricedLine == [][AddAppendsOneLine]_vars

C6_Witness ==
    /\ Len(cart) = 2
    /\ cart[1].total = 15000
    /\ cart[2].variant = Some(Large)
    /\ cart[2].addOns = <<Cheese>>
    /\ cart[2].quantity = 1
    /\ cart[2].total = 22000


(***************************************************************************)
(* Pricing and checkout properties                                         *)
(***************************************************************************)
TotalsAsSpecified(r) ==
    LET t == r.totals
        cgst == IF dbRestaurant.cgst_rate = Null THEN 0 ELSE dbRestaurant.cgst_rate[1]
        sgst == IF dbRestaurant.sgst_rate = Null THEN 0 ELSE dbRestaurant.sgst_rate[1]
    IN  /\ t.subtotal = GetCartSubtotal(r.cart)
        /\ t.cgstAmount * 100 * RateScale = t.subtotal * cgst
        /\ t.sgstAmount * 100 * RateScale = t.subtotal * sgst
        /\ t.grandTotal = t.subtotal + t.cgstAmount + t.sgstAmount
        /\ (t.subtotal = 30000 /\ cgst = 25 /\ sgst = 25) =>
              (t.cgstAmount = 750 /\ t.sgstAmount = 750 /\ t.grandTotal = 31500)

\* C2: for every subtotal S and tax configuration, an unset rate counting as
\* 0, checkout computes cgstAmount = S * cgstRate / 100, sgstAmount =
\* S * sgstRate / 100 and grandTotal = S + cgstAmount + sgstAmount; S = 300 at
\* 2.5% and 2.5% gives 7.5, 7.5 and 315.
C2_CheckoutTotals ==
    \A r \in requests : r.pc = "insert_order" => TotalsAsSpecified(r)

C2_Witness ==
    \E r \in requests :
        /\ r.pc = "insert_order"
        /\ dbRestaurant.cgst_rate = Some(25)
        /\ dbRestaurant.sgst_rate = Some(25)
        /\ r.totals.subtotal = 30000
        /\ r.totals.grandTotal = 31500

SubmittedFromNonEmptyCart ==
    /\ \A o \in orders : Len(o.items) > 0
    /\ \A r \in requests : Len(r.cart) > 0

NoSubmissionOnEmptyCart == (Len(cart) = 0) => (submitted' = submitted)

SubmittedWithName ==
    /\ \A o \in orders : o.customer_name # <<>>
    /\ \A r \in requests : Trim(r.customerName) # <<>>

NoSubmissionWithoutName == (Trim(customerName) = <<>>) => (submitted' = submitted)

\* C8: no Order is inserted while the customer name is empty or white space
\* only, on any path to submission, even with a non-empty cart.
C8_NoOrderWithoutName ==
    []SubmittedWithName /\ [][NoSubmissionWithoutName]_vars

C8_Witness ==
    /\ CartViewShown
    /\ Len(cart) > 0
    /\ customerName = <<" ">>
    /\ ~orderLoading
    /\ submitted = 0
    /\ orders = {}

OnlineSubmittedWithReference ==
    /\ \A p \in payments : p.utr_number # <<>>
    /\ \A r \in requests :
          r.paymentMethod = "pay_online" => Trim(r.utrNumber) # <<>>

NoOnlineSubmissionWithoutReference ==
    (paymentStep = "pay_online" /\ Trim(utrNumber) = <<>>) =>
        /\ submitted' = submitted
        /\ \A r \in requests' : \E q \in requests : q.rid = r.rid
        /\ \A o \in orders' \ orders : \E q \in requests : q.rid = o.id
        /\ \A p \in payments' \ payments : \E q \in requests : q.rid = p.order_id

\* C9: on the pay-online step, while the transaction reference is empty or
\* white space only, no submission starts: no request is issued and the only
\* rows inserted are those of submissions already in flight; every Payment and
\* every pay-online submission in flight carries a non-blank reference.
C9_NoOnlineOrderWithoutReference ==
    []OnlineSubmittedWithReference /\ [][NoOnlineSubmissionWithoutReference]_vars

C9_Witness ==
    /\ PanelOpen
    /\ paymentStep = "pay_online"
    /\ utrNumber = <<" ">>
    /\ ~orderLoading
    /\ submitted = 0
    /\ orders = {}
    /\ payments = {}

PaymentsBelongToOrders ==
    \A p \in payments :
        /\ p.status = "pending"
        /\ \E o \in orders : o.id = p.order_id
        /\ \A q \in payments : q.order_id = p.order_id => q = p

PaymentOnlyFromOnlineSubmission ==
    /\ payments' # payments =>
          \E r \in requests :
              /\ r.pc = "insert_payment"
              /\ r.paymentMethod = "pay_online"
              /\ \E o \in orders : o.id = r.rid /\ o.total = r.totals.subtotal
              /\ r.totals.grandTotal =
                    r.totals.subtotal + r.totals.cgstAmount + r.totals.sgstAmount
              /\ \E p \in payments' :
                    /\ payments' = payments \cup {p}
                    /\ p.order_id = r.rid
                    /\ p.utr_number = Trim(r.utrNumber)
                    /\ p.status = "pending"
                    /\ p.amount = r.totals.grandTotal
    /\ \A r \in requests :
          InsertOrderResolves(r, TRUE) =>
              /\ \E o \in orders' :
                    /\ orders' = orders \cup {o}
                    /\ o.id = r.rid
                    /\ o.items = StripIds(r.cart)
                    /\ o.total = r.totals.subtotal
                    /\ o.status = "pending"
                    /\ o.customer_name = Trim(r.customerName)
              /\ payments' = payments
              /\ r.paymentMethod = "pay_at_counter" =>
                    \A q \in requests' : q.rid # r.rid

\* C10: a Payment is inserted only by a pay-online submission whose Order
\* insert succeeded, with that Order's id, the entered reference, status
\* pending and the grand total computed for that Order; a pay-at-counter
\* submission inserts the same Order and no Payment.
C10_PaymentOnlyOnline ==
    []PaymentsBelongToOrders /\ [][PaymentOnlyFromOnlineSubmission]_vars

C10_Witness ==
    \E p \in payments, o \in orders :
        /\ o.id = p.order_id
        /\ o.total = 30000
        /\ p.amount = 31500
        /\ p.utr_number = <<"a">>
        /\ requests = {}

(***************************************************************************)
(* Failure handling of the submission                                      *)
(***************************************************************************)
NoOrderLeftWithoutPayment ==
    \A r \in requests :
        ( /\ r.paymentMethod = "pay_online"
          /\ \E o \in orders' : o.id = r.rid
          /\ \A q \in requests' : q.rid # r.rid )
        => \E p \in payments' : p.order_id = r.rid

\* C11: when a pay-online submission finishes, the Order it persisted has its
\* Payment record; in particular no success is reported, and no navigation to
\* the bill is set up, for an Order whose Payment insert failed.
C11_NoPartialOnlineOrder == [][NoOrderLeftWithoutPayment]_vars

OrderInsertFailureKeepsCheckout ==
    \A r \in requests :
        InsertOrderResolves(r, FALSE) =>
            /\ paymentStep' = paymentStep
            /\ showCart' = showCart
            /\ navigateTo' = navigateTo
            /\ page' = page
            /\ toast' = "Order Failed"
            /\ cart' = cart
            /\ customerName' = customerName
            /\ utrNumber' = utrNumber
            /\ orders' = orders
            /\ payments' = payments
            /\ ~orderLoading'
            /\ \A q \in requests' : q.rid # r.rid

BillTotalIsCheckoutTotal ==
    BillShown =>
        /\ \E t \in checkoutTotals : t.order_id = billPage.orderId[1]
        /\ \A t \in checkoutTotals :
              t.order_id = billPage.orderId[1] =>
                  BillTotals.grandTotal = t.grandTotal

\* C13: while the restaurant's tax rates stay as they were at checkout, the
\* grand total the bill page derives from the Order's stored subtotal is the
\* grand total placeOrder computed for that Order.
C13_BillTotalIsCheckoutTotal == BillTotalIsCheckoutTotal

C13_Witness ==
    /\ BillShown
    /\ billPage.order[1].total = 30000
    /\ billPage.restaurant[1].cgst_rate = Some(25)
    /\ billPage.restaurant[1].sgst_rate = Null
    /\ BillTotals.grandTotal = 30750
    /\ \E t \in checkoutTotals : t.grandTotal = 30750

(***************************************************************************)
(* Amounts across the pay-online view, the Payment and the Bill            *)
(***************************************************************************)
PaymentAmountIsAmountShown ==
    /\ \A r \in requests :
          (r.paymentMethod = "pay_online" /\ r.pc # "select") =>
              r.totals.grandTotal =
                  ViewTotals(GetCartSubtotal(r.cart), restaurant).grandTotal
    /\ \A p \in payments : \A o \in orders :
          o.id = p.order_id =>
              p.amount = ViewTotals(o.total, restaurant).grandTotal

\* C14: the amount of a Payment, and the grand total a pay-online submission
\* is about to store, is the amount the pay-online view showed for the
\* submitted cart, also when the owner saved new tax rates after the menu
\* page had loaded.
C14_PaymentAmountIsAmountShown == PaymentAmountIsAmountShown

(***************************************************************************)
(* Order status and bills                                                  *)
(***************************************************************************)
\* The lifecycle of an Order: one step forward, or cancelled from a status
\* that is neither completed nor cancelled.
Lifecycle ==
    {<<"pending", "in_preparation">>, <<"in_preparation", "ready">>,
     <<"ready", "served">>, <<"served", "completed">>}
    \cup {<<s, "cancelled">> : s \in {"pending", "in_preparation", "ready",
                                      "served"}}

StatusFollowsLifecycle ==
    \A o \in orders : \A n \in orders' :
        (n.id = o.id /\ n.status # o.status) =>
            <<o.status, n.status>> \in Lifecycle

\* C16: every change of an Order's status is one step forward along pending,
\* in_preparation, ready, served, completed, or a cancellation of an Order
\* that is not completed or cancelled; a completed or cancelled Order keeps
\* its status.
C16_StatusFollowsLifecycle == [][StatusFollowsLifecycle]_vars

CompletionLeavesBill ==
    \A o \in orders : \A n \in orders' :
        (n.id = o.id /\ o.status # "completed" /\ n.status = "completed") =>
            \E k \in 1..Len(bills') :
                /\ bills'[k].order_id = n.id
                /\ bills'[k].subtotal = n.total
                /\ bills'[k].cgst_amount * 100 * RateScale
                      = n.total * OrZero(dbRestaurant.cgst_rate)
                /\ bills'[k].sgst_amount * 100 * RateScale
                      = n.total * OrZero(dbRestaurant.sgst_rate)
                /\ bills'[k].total = bills'[k].subtotal + bills'[k].cgst_amount
                                        + bills'[k].sgst_amount

\* C17: when an update moves an Order to completed from another status, then
\* as the update commits there is a Bill of that Order whose subtotal is the
\* Order's stored total, whose tax amounts are that subtotal at the
\* restaurant's rates of that moment (an unset rate as 0), and whose total is
\* the subtotal plus both tax amounts.
C17_CompletionLeavesBill == [][CompletionLeavesBill]_vars

BillTotalIsPaymentAmount ==
    \A k \in 1..Len(bills) : \A p \in payments :
        p.order_id = bills[k].order_id => bills[k].total = p.amount

\* C20: the Bill of an Order paid online stores the amount of the Order's
\* Payment as its total, however order placement, the owner's rate edits and
\* the completion interleave.
C20_BillTotalIsPaymentAmount == BillTotalIsPaymentAmount

(***************************************************************************)
(* Tax lines                                                               *)
(***************************************************************************)
TaxLinesExactlyWhenRatePositive ==
    /\ CartSummaryShown =>
          /\ CartShowsCgstLine <=> OrZero(restaurant.cgst_rate) > 0
          /\ CartShowsSgstLine <=> OrZero(restaurant.sgst_rate) > 0
    /\ BillShown =>
          /\ BillShowsCgstLine <=> OrZero(billPage.restaurant[1].cgst_rate) > 0
          /\ BillShowsSgstLine <=> OrZero(billPage.restaurant[1].sgst_rate) > 0

\* C15 as stated: in the cart summary and on the bill the CGST (SGST) line is
\* shown exactly when the CGST (SGST) rate is greater than 0.
C15_TaxLinesExactlyWhenRatePositive == TaxLinesExactlyWhenRatePositive

TaxLinesWhenAmountPositive ==
    /\ CartSummaryShown =>
          /\ CartShowsCgstLine <=> ( /\ OrZero(restaurant.cgst_rate) > 0
                                     /\ GetCartSubtotal(cart) > 0 )
          /\ CartShowsSgstLine <=> ( /\ OrZero(restaurant.sgst_rate) > 0
                                     /\ GetCartSubtotal(cart) > 0 )
          /\ ( /\ OrZero(restaurant.cgst_rate) = 0
               /\ OrZero(restaurant.sgst_rate) = 0 )
             => CartViewTotals.grandTotal = CartViewTotals.subtotal
    /\ BillShown =>
          /\ BillShowsCgstLine <=>
                ( /\ OrZero(billPage.restaurant[1].cgst_rate) > 0
                  /\ billPage.order[1].total > 0 )
          /\ BillShowsSgstLine <=>
                ( /\ OrZero(billPage.restaurant[1].sgst_rate) > 0
                  /\ billPage.order[1].total > 0 )
          /\ ( /\ OrZero(billPage.restaurant[1].cgst_rate) = 0
               /\ OrZero(billPage.restaurant[1].sgst_rate) = 0 )
             => BillTotals.grandTotal = BillTotals.subtotal

\* C15 amended: the CGST (SGST) line is shown exactly when that rate is
\* greater than 0 and the subtotal is greater than 0, in the cart summary and
\* on the bill; with both rates 0 or unset no tax line is shown and the grand
\* total is the subtotal.
C15_TaxLinesWhenAmountPositive == TaxLinesWhenAmountPositive

C15_Witness ==
    /\ BillShown
    /\ billPage.order[1].total = 0
    /\ billPage.restaurant[1].cgst_rate = Some(25)
    /\ billPage.restaurant[1].sgst_rate = Some(0)
    /\ ~BillShowsCgstLine
    /\ ~BillShowsSgstLine

(***************************************************************************)
(* Payment disabled, and the lines stored in an Order                      *)
(***************************************************************************)
PaymentDisabledStaysInCart ==
    ~restaurant.payment_enabled =>
        /\ paymentStep = "cart"
        /\ payments = {}
        /\ \A r \in requests : r.paymentMethod = "pay_at_counter"

ProceedSubmitsAtCounter ==
    (~restaurant.payment_enabled /\ ClickProceedToPayment(MaxSubmissions)) =>
        /\ paymentStep' = "cart"
        /\ submitted' = submitted + 1
        /\ \E r \in requests' :
              /\ requests' = requests \cup {r}
              /\ r \notin requests
              /\ r.paymentMethod = "pay_at_counter"
              /\ r.cart = cart
              /\ r.customerName = customerName

\* C18: with online payment not enabled in the restaurant row the page
\* loaded, Proceed to Payment with a non-blank name starts a pay-at-counter
\* submission at once; the payment step never leaves the cart step and no
\* Payment is ever inserted.
C18_PaymentDisabledSkipsChoice ==
    []PaymentDisabledStaysInCart /\ [][ProceedSubmitsAtCounter]_vars

C18_Witness ==
    /\ ~restaurant.payment_enabled
    /\ paymentStep = "cart"
    /\ toast = "Order Placed!"
    /\ requests = {}
    /\ \E o \in orders : o.customer_name = <<"a">>
    /\ payments = {}

RECURSIVE SumLineTotals(_)
\* the amounts the bill prints next to the lines, added up
SumLineTotals(items) ==
    IF items = <<>> THEN 0 ELSE items[1].total + SumLineTotals(Tail(items))

StoredLineTotals ==
    \A o \in orders :
        /\ \A k \in 1..Len(o.items) :
              o.items[k].total = LineUnitPrice(o.items[k]) * o.items[k].quantity
        /\ SumLineTotals(o.items) = o.total

\* C19: every line stored in an Order has a total of unit price times
\* quantity, and the line totals of an Order add up to its stored subtotal.
C19_StoredLineTotals == StoredLineTotals

(***************************************************************************)
(* Repeated submission                                                     *)
(***************************************************************************)
OneSubmissionInFlight == Cardinality(requests) <= 1

NoSubmissionWhileInFlight == (requests # {}) => (submitted' = submitted)

\* C21: while a submission is in flight no second one starts, from Proceed to
\* Payment, Pay at Counter or Confirm & Place Order, so at most one placeOrder
\* call is at an await at any time.
C21_NoSecondSubmissionInFlight ==
    []OneSubmissionInFlight /\ [][NoSubmissionWhileInFlight]_vars

CartDestroyedOnSuccess == (navigateTo # {}) => (cart = <<>>)

NoSubmissionAfterSuccess ==
    (navigateTo # {} /\ page = "menu") => (submitted' = submitted)

\* C22: once a submission has succeeded the cart has no lines, and until the
\* bill page opens no further submission starts.
C22_NoResubmissionAfterSuccess ==
    []CartDestroyedOnSuccess /\ [][NoSubmissionAfterSuccess]_vars

AtMostOneBillPerOrder ==
    \A j, k \in 1..Len(bills) : bills[j].order_id = bills[k].order_id => j = k

\* C23: after any sequence of staff status updates, also out of completed and
\* back into it, no two rows of the bills table belong to the same Order.
C23_AtMostOneBillPerOrder == AtMostOneBillPerOrder

(***************************************************************************)
(* Staff orders list                                                       *)
(***************************************************************************)
\* Every change event has been delivered and every fetchOrders call has
\* resolved, none of them with an error.
OrdersPageSettled ==
    /\ ordersPage.pc = "mounted"
    /\ channel = <<>>
    /\ ordersPage.fetches = {}
    /\ ~ordersPage.failed

ListIsStoreWhenSettled == OrdersPageSettled => ordersPage.orders = orders

ListNotBuiltFromPayload ==
    \A redelivered \in BOOLEAN :
        OnOrdersChange(redelivered) => ordersPage'.orders = ordersPage.orders

\* C24: once every change event, duplicates included, has been delivered and
\* every fetchOrders call they started has resolved, the list of the staff
\* orders page is the set of orders in the store; the delivery of an event
\* itself leaves the list as it is.
C24_ListIsStoreWhenSettled ==
    []ListIsStoreWhenSettled /\ [][ListNotBuiltFromPayload]_vars

(***************************************************************************)
(* Leaving the checkout                                                    *)
(***************************************************************************)
BackReturnsTowardsCart ==
    /\ ClickBackToCart => paymentStep' = "cart"
    /\ ClickBack => paymentStep' = "payment_choice"

NoLeavingWhileInFlight ==
    (requests # {}) => (paymentStep' = paymentStep /\ showCart' = showCart)

\* C25: Back on the pay-online step leads to the payment choice and Back to
\* Cart on the payment choice leads to the cart step; while a placeOrder call
\* is in flight no step changes the payment step or closes the cart panel.
C25_NoLeavingWhileInFlight ==
    [][BackReturnsTowardsCart /\ NoLeavingWhileInFlight]_vars

CloseDiscardsWorkflow ==
    /\ (requests = {} /\ CloseCart) => cart' = cart
    /\ (requests = {} /\ OpenCart) =>
          /\ cart' = cart
          /\ paymentStep' = "cart"
          /\ customerName' = <<>>
          /\ utrNumber' = <<>>

\* C26: closing the cart panel while no placeOrder call is in flight leaves
\* the cart lines as they are, and the panel opened next is at the cart step
\* with no customer name and no transaction reference.
C26_CloseDiscardsWorkflow == [][CloseDiscardsWorkflow]_vars

(***************************************************************************)
(* Status values and the column constraint                                 *)
(***************************************************************************)
StatusChangePersists ==
    \A o \in orders : \A s \in orderStatuses :
        HandleStatusChange(o, s, TRUE) =>
            \E n \in orders' : n.id = o.id /\ n.status = s

\* C27: whichever option of the status select the staff choose, an update
\* that no other failure stops stores that status on the Order; in particular
\* pending -> in_preparation is persisted.
C27_StatusChangePersists == [][StatusChangePersists]_vars

(***************************************************************************)
(* Totals stored by the earlier revision of the page                       *)
(***************************************************************************)
OldFlowTotals ==
    /\ \A o \in orders : o.total = SumUnitTimesQuantity(o.items)
    /\ \A k \in 1..Len(bills) : \A o \in orders :
          o.id = bills[k].order_id =>
              bills[k].total = SumUnitTimesQuantity(o.items)

\* C28: in the flow that inserts the Bill at order placement, the total of
\* the Order and the total of its Bill are the sum over the submitted lines
\* of unit price times quantity.
C28_OldFlowTotals == OldFlowTotals

(***************************************************************************)
(* Cart line ids                                                           *)
(***************************************************************************)
CartIdsUnique ==
    \A j, k \in 1..Len(cart) : cart[j].id = cart[k].id => j = k

WithoutIndex(c, k) == SubSeq(c, 1, k - 1) \o SubSeq(c, k + 1, Len(c))

OnlyTargetedLineChanges ==
    \A k \in 1..Len(cart) :
        (ClickPlus(k, MaxQty) \/ ClickMinus(k)) =>
            \/ /\ Len(cart') = Len(cart)
               /\ \A j \in 1..Len(cart) : j # k => cart'[j] = cart[j]
            \/ cart' = WithoutIndex(cart, k)

\* C29: no two cart lines have the same id, also when an item is added twice
\* within one millisecond, and a click on + or - of a line changes or removes
\* that line and leaves every other line as it is.
C29_OnlyTargetedLineChanges ==
    []CartIdsUnique /\ [][OnlyTargetedLineChanges]_vars

(***************************************************************************)
(* Price on the variant dialog                                             *)
(***************************************************************************)
ConfirmAddsAtPriceShown ==
    (DialogOpen /\ HandleConfirm /\ Len(cart') = Len(cart) + 1) =>
        cart'[Len(cart')].total = CalculateTotal

\* C30: the line that Add to Cart of the variant dialog appends has as its
\* unit price the price the dialog's button showed, for every variant and
\* add-on selection, also for a variant priced 0.
C30_ConfirmAddsAtPriceShown == [][ConfirmAddsAtPriceShown]_vars
====
